---- MODULE Spec2Model ----
(***************************************************************************)
(* Quote builder: catalog, line items, quote metadata, the persisted       *)
(* quotation counter and the PDF export (QuoteBuilder.tsx,                  *)
(* generateQuotePDF.ts).                                                    *)
(*                                                                         *)
(* Text that the code parses or formats (numbers, dates, names that are    *)
(* trimmed) is a sequence of one-character strings; text the code only     *)
(* stores and prints is a TLA+ string.  Money is an integer number of      *)
(* cents (exact decimal arithmetic; binary floating-point rounding of the  *)
(* JavaScript numbers is not modelled).                                    *)
(***************************************************************************)
EXTENDS Integers, Sequences, FiniteSets

(***************************************************************************)
(* Bounds                                                                  *)
(***************************************************************************)
MaxLineItems == 2
MaxAdds == 2
MaxExports == 2
MaxTicks == 1
YearHi == 2025
MaxCatalog == 3
MaxEdits == 3
MaxQuoteEdits == 2

(***************************************************************************)
(* Characters and decimal numerals                                         *)
(***************************************************************************)
\* the value of F at x, with x evaluated once
Once(F(_), x) == CHOOSE r \in { F(v) : v \in {x} } : TRUE

Digits == <<"0", "1", "2", "3", "4", "5", "6", "7", "8", "9">>

IsDigit(c) == c \in {"0", "1", "2", "3", "4", "5", "6", "7", "8", "9"}

DigitVal(c) ==
  CASE c = "0" -> 0 [] c = "1" -> 1 [] c = "2" -> 2 [] c = "3" -> 3 [] c = "4" -> 4
    [] c = "5" -> 5 [] c = "6" -> 6 [] c = "7" -> 7 [] c = "8" -> 8 [] c = "9" -> 9

IsSpace(c) == c = " "

RECURSIVE NatToString(_)
NatToString(n) ==
  IF n < 10 THEN <<Digits[n + 1]>>
  ELSE NatToString(n \div 10) \o <<Digits[(n % 10) + 1]>>

\* Number.prototype.toString for an integer
toString(n) == Once(LAMBDA i : IF i < 0 THEN <<"-">> \o NatToString(-i) ELSE NatToString(i), n)

\* String.prototype.padStart(len, c) for a one-character filler
RECURSIVE padStart(_, _, _)
padStart(s, len, c) == IF Len(s) >= len THEN s ELSE padStart(<<c>> \o s, len, c)

RECURSIVE TrimStart(_)
TrimStart(s) ==
  IF s # <<>> /\ IsSpace(Head(s)) THEN TrimStart(Tail(s)) ELSE s

RECURSIVE TrimEnd(_)
TrimEnd(s) ==
  IF s # <<>> /\ IsSpace(s[Len(s)]) THEN TrimEnd(SubSeq(s, 1, Len(s) - 1)) ELSE s

\* String.prototype.trim
trim(s) == TrimEnd(TrimStart(s))

\* Length of the longest prefix of s made of digits
RECURSIVE DigitPrefixLen(_)
DigitPrefixLen(s) ==
  IF s # <<>> /\ IsDigit(Head(s)) THEN 1 + DigitPrefixLen(Tail(s)) ELSE 0

RECURSIVE DigitsValue(_)
DigitsValue(s) ==
  IF s = <<>> THEN 0
  ELSE 10 * DigitsValue(SubSeq(s, 1, Len(s) - 1)) + DigitVal(s[Len(s)])

NaN == [nan |-> TRUE, v |-> 0]

Num(n) == [nan |-> FALSE, v |-> n]

\* the digits at the head of body read as a number, NaN when there is none
ParseDigits(neg, body) ==
  Once(LAMBDA k : IF k = 0 THEN NaN
                  ELSE Once(LAMBDA mag : Num(IF neg THEN -mag ELSE mag),
                            DigitsValue(SubSeq(body, 1, k))),
       DigitPrefixLen(body))

\* an optional sign, then digits
ParseSigned(t) ==
  IF t # <<>> /\ Head(t) \in {"-", "+"} THEN ParseDigits(Head(t) = "-", Tail(t))
  ELSE ParseDigits(FALSE, t)

\* parseInt(s) in radix 10: leading white space skipped, optional sign, the
\* longest digit prefix; NaN when there is no digit.  (No modelled input
\* starts with "0x", the one case where an omitted radix differs from 10.)
parseInt(s) == Once(ParseSigned, TrimStart(s))

\* x || dflt for a number x: NaN and 0 are falsy
OrElse(x, dflt) == Once(LAMBDA n : IF n.nan \/ n.v = 0 THEN dflt ELSE n.v, x)

\* String.prototype.split for a one-character separator
RECURSIVE split(_, _)
split(s, sep) ==
  IF \E i \in 1..Len(s) : s[i] = sep
  THEN LET i == CHOOSE j \in 1..Len(s) : s[j] = sep /\ \A k \in 1..(j - 1) : s[k] # sep
       IN  <<SubSeq(s, 1, i - 1)>> \o split(SubSeq(s, i + 1, Len(s)), sep)
  ELSE <<s>>

\* Number.prototype.toFixed(2) of an amount held in cents
Fixed2(sign, a) ==
  sign \o NatToString(a \div 100) \o <<".">> \o padStart(NatToString(a % 100), 2, "0")

toFixed2(cents) ==
  Once(LAMBDA c : IF c < 0 THEN Fixed2(<<"-">>, -c) ELSE Fixed2(<<>>, c), cents)

\* the template `$${x.toFixed(2)}`
Dollar(cents) == <<"$">> \o toFixed2(cents)

(***************************************************************************)
(* Calendar: the Date object in local time, as a day number (days since    *)
(* 1 January 1970) with a proleptic Gregorian calendar.                    *)
(***************************************************************************)
\* MakeDay(year, month, date) of ECMAScript: month is 0-based and may be out
\* of range, date may be any integer
MakeDay(year, month, date) ==
  LET ym  == year + (month \div 12)
      mn  == month % 12
      y   == IF mn <= 1 THEN ym - 1 ELSE ym
      era == y \div 400
      yoe == y - era * 400
      mp  == (mn + 10) % 12
      doy == (153 * mp + 2) \div 5
      doe == yoe * 365 + (yoe \div 4) - (yoe \div 100) + doy
  IN  era * 146097 + doe - 719468 + (date - 1)

\* year, month (0-based) and day of month of a day number
YearMonthDate(t) ==
  LET z   == t + 719468
      era == z \div 146097
      doe == z - era * 146097
      yoe == (doe - (doe \div 1460) + (doe \div 36524) - (doe \div 146096)) \div 365
      doy == doe - (365 * yoe + (yoe \div 4) - (yoe \div 100))
      mp  == (5 * doy + 2) \div 153
      d   == doy - ((153 * mp + 2) \div 5) + 1
      m   == IF mp < 10 THEN mp + 3 ELSE mp - 9
      y   == yoe + era * 400 + (IF m <= 2 THEN 1 ELSE 0)
  IN  [year |-> y, month |-> m - 1, date |-> d]

InvalidDate == [valid |-> FALSE, t |-> 0]

\* new Date(year, monthIndex, day) with numbers that may be NaN; a year
\* 0..99 means 1900 + year
NewDateYMD(year, month, date) ==
  IF year.nan \/ month.nan \/ date.nan THEN InvalidDate
  ELSE LET yr == IF year.v >= 0 /\ year.v <= 99 THEN 1900 + year.v ELSE year.v
       IN  [valid |-> TRUE, t |-> MakeDay(yr, month.v, date.v)]

\* d.setDate(d.getDate() + n)
AddDays(d, n) ==
  LET f == YearMonthDate(d.t)
  IN  [valid |-> TRUE, t |-> MakeDay(f.year, f.month, f.date + n)]

\* formatDate without the + 1 on the month index
formatDateMonthIndex(d) ==
  LET f == YearMonthDate(d.t)
  IN  toString(f.month) \o <<"/">> \o toString(f.date) \o <<"/">> \o toString(f.year)

\* formatDate (QuoteBuilder.tsx)
formatDate(d) ==
  LET f == YearMonthDate(d.t)
  IN  toString(f.month + 1) \o <<"/">> \o toString(f.date) \o <<"/">> \o toString(f.year)

\* Date.prototype: days in a 1-based month
IsLeapYear(y) == (y % 4 = 0 /\ y % 100 # 0) \/ y % 400 = 0

DaysInMonth(y, m) ==
  IF m = 2 THEN (IF IsLeapYear(y) THEN 29 ELSE 28)
  ELSE IF m \in {4, 6, 9, 11} THEN 30 ELSE 31

(***************************************************************************)
(* State                                                                   *)
(***************************************************************************)
VARIABLES
  catalog,        \* useState<PriceItem[]>(loadCatalog)
  catalogIsDefaultRef, \* catalog is the defaultPriceSheet array itself
  newItem,        \* the "Add New Item" form
  editingItem,    \* <<>> (null) or <<item being edited>>
  lineItems,      \* useState<QuoteLineItem[]>([])
  nextId,         \* number of identifiers handed out by crypto.randomUUID
  quoteInfo,      \* useState<QuoteInfo>
  localStorage,   \* the two keys: <<>> (absent) or <<value>>
  exports,        \* exports suspended on loadImage, in initiation order
  docs,           \* documents written by doc.save, in order, each with the
                  \* arguments generateQuotePDF was called with
  toast,          \* the last notification shown
  lastOp,         \* the handler that ran last
  today,          \* the current local date, as a day number
  ticks,          \* midnights passed since the page was opened
  tzWest,         \* the local time zone is behind UTC
  edits,          \* number of edits the user has made (bounded by MaxEdits)
  counter0        \* the counter the storage held when the page was opened

vars == <<catalog, catalogIsDefaultRef, newItem, editingItem, lineItems, nextId,
          quoteInfo, localStorage, exports, docs, toast, lastOp, today, ticks, tzWest, edits, counter0>>

catalogVars == <<catalog, catalogIsDefaultRef, newItem, editingItem>>

itemVars == <<lineItems, nextId>>

exportVars == <<exports, docs>>

clockVars == <<today, ticks, tzWest, counter0>>

(***************************************************************************)
(* Dates (QuoteBuilder.tsx 53-76)                                          *)
(***************************************************************************)
AllDigits(s) == \A i \in 1..Len(s) : IsDigit(s[i])

\* new Date(dateStr) for a string.  Only the ECMAScript date-only format
\* YYYY-MM-DD is recognised; it denotes midnight UTC, which is the previous
\* local day in a zone behind UTC.  Every other modelled input is text that
\* no engine parses.
DateParse(s, west) ==
  IF Len(s) = 10 /\ s[5] = "-" /\ s[8] = "-"
     /\ AllDigits(SubSeq(s, 1, 4)) /\ AllDigits(SubSeq(s, 6, 7)) /\ AllDigits(SubSeq(s, 9, 10))
  THEN LET y == DigitsValue(SubSeq(s, 1, 4))
           m == DigitsValue(SubSeq(s, 6, 7))
           d == DigitsValue(SubSeq(s, 9, 10))
       IN  IF m \in 1..12 /\ d >= 1 /\ d <= DaysInMonth(y, m)
           THEN [valid |-> TRUE, t |-> MakeDay(y, m - 1, d) - (IF west THEN 1 ELSE 0)]
           ELSE InvalidDate
  ELSE InvalidDate

\* parseInt(x) - 1
Minus1(x) == IF x.nan THEN NaN ELSE Num(x.v - 1)

ValidityDays == 60

\* getValidUntil that never reads its argument
getValidUntilFromNow(dateStr, now, west) ==
  formatDate(AddDays([valid |-> TRUE, t |-> now], ValidityDays))

getValidUntil(dateStr, now, west) ==
  LET parts == split(dateStr, "/")
      d1    == IF Len(parts) = 3
               THEN NewDateYMD(parseInt(parts[3]), Minus1(parseInt(parts[1])), parseInt(parts[2]))
               ELSE InvalidDate
      d2    == DateParse(dateStr, west)
  IN  IF Len(parts) = 3 /\ d1.valid THEN formatDate(AddDays(d1, ValidityDays))
      ELSE IF d2.valid THEN formatDate(AddDays(d2, ValidityDays))
      ELSE formatDate(AddDays([valid |-> TRUE, t |-> now], ValidityDays))

(***************************************************************************)
(* The quotation counter (QuoteBuilder.tsx 40-51)                          *)
(***************************************************************************)
None == <<>>

Some(v) == <<v>>

\* localStorage.getItem(key) || "0", then parseInt(.., 10)
StoredCounter(ls) ==
  parseInt(IF ls.quotationCounter = None \/ ls.quotationCounter[1] = <<>>
           THEN <<"0">> ELSE ls.quotationCounter[1])

\* peekQuotationNumber without the + 1
peekNoIncrement(ls) == padStart(toString(StoredCounter(ls).v), 5, "0")

peekQuotationNumber(ls) == padStart(toString(StoredCounter(ls).v + 1), 5, "0")

\* the value incrementQuotationNumber returns
incrementedNumber(ls) == padStart(toString(StoredCounter(ls).v + 1), 5, "0")

\* the storage incrementQuotationNumber leaves behind
incrementedStorage(ls) ==
  [ls EXCEPT !.quotationCounter = Some(toString(StoredCounter(ls).v + 1))]

(***************************************************************************)
(* Catalog and its persistence (QuoteBuilder.tsx 78-88, 114-116, 160-190)  *)
(***************************************************************************)
\* the built-in price sheet (data/priceSheet)
defaultPriceSheet ==
  << [item |-> <<"V", "M">>, unitPrice |-> 1000, category |-> <<"C">>],
     [item |-> <<"D", "B">>, unitPrice |-> 4999, category |-> <<"S">>] >>

\* JSON.stringify of a PriceItem[]: the items as [name, price, category] rows
stringify(items) ==
  [i \in 1..Len(items) |-> <<items[i].item, items[i].unitPrice, items[i].category>>]

\* JSON.parse of such a blob
parse(blob) ==
  [i \in 1..Len(blob) |-> [item |-> blob[i][1], unitPrice |-> blob[i][2], category |-> blob[i][3]]]

\* loadCatalog taking a stored empty array for a missing one
loadCatalogEmptyAsMissing(ls) ==
  IF ls.priceCatalog # None /\ ls.priceCatalog[1] # <<>>
  THEN parse(ls.priceCatalog[1]) ELSE defaultPriceSheet

\* loadCatalog (78-84); every blob saveCatalog writes is a non-empty text
loadCatalog(ls) ==
  IF ls.priceCatalog # None THEN parse(ls.priceCatalog[1]) ELSE defaultPriceSheet

saveCatalog(ls, items) == [ls EXCEPT !.priceCatalog = Some(stringify(items))]

\* parseFloat(s) in cents, for text with at most two fraction digits and no
\* exponent: optional sign, digits, optional "." and digits
parseFloat(s) ==
  LET t    == TrimStart(s)
      neg  == t # <<>> /\ Head(t) = "-"
      sgn  == t # <<>> /\ Head(t) \in {"-", "+"}
      body == IF sgn THEN Tail(t) ELSE t
      k    == DigitPrefixLen(body)
      rest == SubSeq(body, k + 1, Len(body))
      frac == IF rest # <<>> /\ Head(rest) = "."
              THEN SubSeq(Tail(rest), 1, DigitPrefixLen(Tail(rest))) ELSE <<>>
      f2   == SubSeq(frac \o <<"0", "0">>, 1, 2)
      mag  == 100 * DigitsValue(SubSeq(body, 1, k)) + DigitsValue(f2)
  IN  IF k = 0 /\ frac = <<>> THEN NaN ELSE Num(IF neg THEN -mag ELSE mag)

EmptyNewItem == [item |-> <<>>, unitPrice |-> 0, category |-> <<>>]

NameInputs == { <<>>, <<" ">>, <<" ", "V", "M", " ">>, <<"N">> }

CategoryInputs == { <<>>, <<" ">>, <<"K", " ">> }

PriceInputs == { <<>>, <<"2", ".", "5">> }

\* onChange of the "Item name" input (243)
SetNewItemName(text) ==
  /\ edits < MaxEdits
  /\ edits' = edits + 1
  /\ newItem' = [newItem EXCEPT !.item = text]
  /\ lastOp' = "setNewItemName"
  /\ UNCHANGED <<catalog, catalogIsDefaultRef, editingItem, itemVars, quoteInfo,
                 localStorage, exportVars, toast, clockVars>>

\* onChange of the "Category" input (244)
SetNewItemCategory(text) ==
  /\ edits < MaxEdits
  /\ edits' = edits + 1
  /\ newItem' = [newItem EXCEPT !.category = text]
  /\ lastOp' = "setNewItemCategory"
  /\ UNCHANGED <<catalog, catalogIsDefaultRef, editingItem, itemVars, quoteInfo,
                 localStorage, exportVars, toast, clockVars>>

\* onChange of the "Unit Price" input (246)
SetNewItemPrice(text) ==
  /\ edits < MaxEdits
  /\ edits' = edits + 1
  /\ newItem' = [newItem EXCEPT !.unitPrice = OrElse(parseFloat(text), 0)]
  /\ lastOp' = "setNewItemPrice"
  /\ UNCHANGED <<catalog, catalogIsDefaultRef, editingItem, itemVars, quoteInfo,
                 localStorage, exportVars, toast, clockVars>>

\* addCatalogItem comparing the name as typed, not trimmed
addCatalogItemErrorUntrimmed(cat, ni) ==
  IF trim(ni.item) = <<>> \/ trim(ni.category) = <<>>
  THEN "Item name and category are required."
  ELSE IF \E i \in 1..Len(cat) : cat[i].item = ni.item
  THEN "An item with this name already exists."
  ELSE ""

\* the two validations of addCatalogItem (161, 165): the error it reports, or "" 
addCatalogItemError(cat, ni) ==
  IF trim(ni.item) = <<>> \/ trim(ni.category) = <<>>
  THEN "Item name and category are required."
  ELSE IF \E i \in 1..Len(cat) : cat[i].item = trim(ni.item)
  THEN "An item with this name already exists."
  ELSE ""

\* addCatalogItem, with the useEffect that saves the changed catalog
addCatalogItem ==
  /\ edits < MaxEdits
  /\ edits' = edits + 1
  /\ lastOp' = "addCatalogItem"
  /\ IF addCatalogItemError(catalog, newItem) # ""
     THEN /\ toast' = addCatalogItemError(catalog, newItem)
          /\ UNCHANGED <<catalog, catalogIsDefaultRef, newItem, localStorage>>
     ELSE /\ catalog' = Append(catalog, [newItem EXCEPT !.item = trim(newItem.item),
                                                        !.category = trim(newItem.category)])
          /\ catalogIsDefaultRef' = FALSE
          /\ newItem' = EmptyNewItem
          /\ localStorage' = saveCatalog(localStorage, catalog')
          /\ toast' = "Item added to catalog."
  /\ UNCHANGED <<editingItem, itemVars, quoteInfo, exportVars, clockVars>>

\* the pencil button (279): setEditingItem({ ...item })
StartEdit(i) ==
  /\ edits < MaxEdits
  /\ edits' = edits + 1
  /\ i \in 1..Len(catalog)
  /\ editingItem' = Some(catalog[i])
  /\ lastOp' = "startEdit"
  /\ UNCHANGED <<catalog, catalogIsDefaultRef, newItem, itemVars, quoteInfo,
                 localStorage, exportVars, toast, clockVars>>

\* onChange of the category input of the row being edited (269)
SetEditCategory(text) ==
  /\ edits < MaxEdits
  /\ edits' = edits + 1
  /\ editingItem # None
  /\ editingItem' = Some([editingItem[1] EXCEPT !.category = text])
  /\ lastOp' = "setEditCategory"
  /\ UNCHANGED <<catalog, catalogIsDefaultRef, newItem, itemVars, quoteInfo,
                 localStorage, exportVars, toast, clockVars>>

\* onChange of the price input of the row being edited (270)
SetEditPrice(text) ==
  /\ edits < MaxEdits
  /\ edits' = edits + 1
  /\ editingItem # None
  /\ editingItem' = Some([editingItem[1] EXCEPT !.unitPrice = OrElse(parseFloat(text), 0)])
  /\ lastOp' = "setEditPrice"
  /\ UNCHANGED <<catalog, catalogIsDefaultRef, newItem, itemVars, quoteInfo,
                 localStorage, exportVars, toast, clockVars>>

\* the X button of the row being edited (272)
CancelEdit ==
  /\ edits < MaxEdits
  /\ edits' = edits + 1
  /\ editingItem # None
  /\ editingItem' = None
  /\ lastOp' = "cancelEdit"
  /\ UNCHANGED <<catalog, catalogIsDefaultRef, newItem, itemVars, quoteInfo,
                 localStorage, exportVars, toast, clockVars>>

\* updateCatalogItem (174-179); the Save button exists only while editing
updateCatalogItem ==
  /\ edits < MaxEdits
  /\ edits' = edits + 1
  /\ editingItem # None
  /\ catalog' = [i \in 1..Len(catalog) |->
                   IF catalog[i].item = editingItem[1].item THEN editingItem[1] ELSE catalog[i]]
  /\ catalogIsDefaultRef' = FALSE
  /\ editingItem' = None
  /\ localStorage' = saveCatalog(localStorage, catalog')
  /\ toast' = "Catalog item updated."
  /\ lastOp' = "updateCatalogItem"
  /\ UNCHANGED <<newItem, itemVars, quoteInfo, exportVars, clockVars>>

\* a removal that also drops every item after the named one
RECURSIVE WithoutNameTruncating(_, _)
WithoutNameTruncating(items, name) ==
  IF items = <<>> THEN <<>>
  ELSE IF Head(items).item = name THEN <<>>
  ELSE <<Head(items)>> \o WithoutNameTruncating(Tail(items), name)

\* Array.prototype.filter on the item name
RECURSIVE WithoutName(_, _)
WithoutName(items, name) ==
  IF items = <<>> THEN <<>>
  ELSE (IF Head(items).item # name THEN <<Head(items)>> ELSE <<>>)
         \o WithoutName(Tail(items), name)

\* deleteCatalogItem (181-184); the row being edited shows no delete button
deleteCatalogItem(itemName) ==
  /\ edits < MaxEdits
  /\ edits' = edits + 1
  /\ \E i \in 1..Len(catalog) : catalog[i].item = itemName
  /\ IF editingItem = None THEN TRUE ELSE editingItem[1].item # itemName
  /\ catalog' = WithoutName(catalog, itemName)
  /\ catalogIsDefaultRef' = FALSE
  /\ localStorage' = saveCatalog(localStorage, catalog')
  /\ toast' = "Item removed from catalog."
  /\ lastOp' = "deleteCatalogItem"
  /\ UNCHANGED <<newItem, editingItem, itemVars, quoteInfo, exportVars, clockVars>>

\* resetCatalog (186-190): the key is removed; setting the state to the array
\* it already holds renders nothing, otherwise the effect saves the defaults
resetCatalog ==
  /\ edits < MaxEdits
  /\ edits' = edits + 1
  /\ catalog' = defaultPriceSheet
  /\ catalogIsDefaultRef' = TRUE
  /\ localStorage' = IF catalogIsDefaultRef
                     THEN [localStorage EXCEPT !.priceCatalog = None]
                     ELSE saveCatalog(localStorage, defaultPriceSheet)
  /\ toast' = "Catalog reset to defaults."
  /\ lastOp' = "resetCatalog"
  /\ UNCHANGED <<newItem, editingItem, itemVars, quoteInfo, exportVars, clockVars>>

(***************************************************************************)
(* Line items (QuoteBuilder.tsx 135-157, 421-472)                          *)
(***************************************************************************)
\* addItem (135-147)
addItem(c) ==
  /\ edits < MaxEdits
  /\ edits' = edits + 1
  /\ c \in 1..Len(catalog)
  /\ Len(lineItems) < MaxLineItems
  /\ nextId < MaxAdds
  /\ lineItems' = Append(lineItems,
                         [id |-> nextId + 1, resource |-> <<>>, type |-> catalog[c].category,
                          itemName |-> catalog[c].item, qty |-> 1,
                          unitPrice |-> catalog[c].unitPrice, notes |-> <<>>])
  /\ nextId' = nextId + 1
  /\ toast' = "Added"
  /\ lastOp' = "addItem"
  /\ UNCHANGED <<catalogVars, quoteInfo, localStorage, exportVars, clockVars>>

\* updateLineItem setting the field on every row
updateLineItemEveryRow(items, id, field, value) ==
  [i \in 1..Len(items) |-> [items[i] EXCEPT ![field] = value]]

\* the new list updateLineItem sets (149-153)
updateLineItem(items, id, field, value) ==
  [i \in 1..Len(items) |->
     IF items[i].id = id THEN [items[i] EXCEPT ![field] = value] ELSE items[i]]

LineTexts == { <<>>, <<"r">> }

QtyInputs == { <<>>, <<"0">>, <<"2">>, <<"-", "3">>, <<"1", ".", "5">>, <<"a">> }

RowIds == { lineItems[i].id : i \in 1..Len(lineItems) }

\* the value the qty input hands to updateLineItem (447)
qtyOnChangeValue(text) == OrElse(parseInt(text), 1)

\* onChange of a row's qty input (443-449)
QtyOnChange(id, text) ==
  /\ edits < MaxEdits
  /\ edits' = edits + 1
  /\ id \in RowIds
  /\ lineItems' = updateLineItem(lineItems, id, "qty", qtyOnChangeValue(text))
  /\ lastOp' = "qtyOnChange"
  /\ UNCHANGED <<catalogVars, nextId, quoteInfo, localStorage, exportVars, toast, clockVars>>

\* onChange of a row's resource, type or notes input (424-438, 458-463)
TextOnChange(id, field, text) ==
  /\ edits < MaxEdits
  /\ edits' = edits + 1
  /\ id \in RowIds
  /\ field \in {"resource", "type", "notes"}
  /\ lineItems' = updateLineItem(lineItems, id, field, text)
  /\ lastOp' = "textOnChange"
  /\ UNCHANGED <<catalogVars, nextId, quoteInfo, localStorage, exportVars, toast, clockVars>>

RECURSIVE WithoutId(_, _)
WithoutId(items, id) ==
  IF items = <<>> THEN <<>>
  ELSE (IF Head(items).id # id THEN <<Head(items)>> ELSE <<>>) \o WithoutId(Tail(items), id)

\* removeLineItem (155-157)
removeLineItem(id) ==
  /\ edits < MaxEdits
  /\ edits' = edits + 1
  /\ id \in RowIds
  /\ lineItems' = WithoutId(lineItems, id)
  /\ lastOp' = "removeLineItem"
  /\ UNCHANGED <<catalogVars, nextId, quoteInfo, localStorage, exportVars, toast, clockVars>>

\* the (field, value) pairs tried with an id no row has
UnknownIdUpdates == { <<"qty", 2>>, <<"notes", <<"r">>>> }

\* updateLineItem (149-153) called with an id no row has; no rendered row
\* makes this call, the function itself accepts any id
updateLineItemUnknownId(id, field, value) ==
  /\ edits < MaxEdits
  /\ edits' = edits + 1
  /\ id \notin RowIds
  /\ lineItems' = updateLineItem(lineItems, id, field, value)
  /\ lastOp' = "updateLineItem"
  /\ UNCHANGED <<catalogVars, nextId, quoteInfo, localStorage, exportVars, toast, clockVars>>

\* removeLineItem (155-157) called with an id no row has
removeLineItemUnknownId(id) ==
  /\ edits < MaxEdits
  /\ edits' = edits + 1
  /\ id \notin RowIds
  /\ lineItems' = WithoutId(lineItems, id)
  /\ lastOp' = "removeLineItem"
  /\ UNCHANGED <<catalogVars, nextId, quoteInfo, localStorage, exportVars, toast, clockVars>>

(***************************************************************************)
(* Quote metadata (QuoteBuilder.tsx 94-104, 119-121, 359-393)              *)
(***************************************************************************)
InfoTexts == { "", "x" }

MonthInputs == { <<>>, <<"0">>, <<"3">>, <<"1", "2">>, <<"-", "2">> }

DateInputs ==
  { <<>>,
    <<"a", "b", "c">>,
    <<"a", "/", "b", "/", "c">>,
    <<"3", "/", "1", "/", "2", "0", "2", "4">>,
    <<"1", "2", "/", "3", "1", "/", "2", "0", "2", "3">>,
    <<"1", "3", "/", "1", "/", "2", "0", "2", "4">>,
    <<"2", "/", "3", "0", "/", "2", "0", "2", "3">>,
    <<"3", "/", "1", "/", "2", "4">>,
    <<"2", "0", "2", "4", "-", "0", "3", "-", "0", "1">> }

\* onChange of a free-text metadata input (364-380)
SetInfoText(field, text) ==
  /\ edits < MaxEdits
  /\ edits' = edits + 1
  /\ field \in {"application", "quoteFrom", "issuer", "attention", "projectFund"}
  /\ quoteInfo' = [quoteInfo EXCEPT ![field] = text]
  /\ lastOp' = "setInfoText"
  /\ UNCHANGED <<catalogVars, itemVars, localStorage, exportVars, toast, clockVars>>

\* onChange of the "Number of Months" input (384)
SetNumberOfMonths(text) ==
  /\ edits < MaxEdits
  /\ edits' = edits + 1
  /\ quoteInfo' = [quoteInfo EXCEPT !.numberOfMonths = text]
  /\ lastOp' = "setNumberOfMonths"
  /\ UNCHANGED <<catalogVars, itemVars, localStorage, exportVars, toast, clockVars>>

\* updateDate (119-121), the onChange of the "Created On" input
updateDate(dateStr) ==
  /\ edits < MaxEdits
  /\ edits' = edits + 1
  /\ quoteInfo' = [quoteInfo EXCEPT !.date = dateStr,
                                   !.validUntil = getValidUntil(dateStr, today, tzWest)]
  /\ lastOp' = "updateDate"
  /\ UNCHANGED <<catalogVars, itemVars, localStorage, exportVars, toast, clockVars>>

\* midnight passes
Tick ==
  /\ UNCHANGED edits
  /\ ticks < MaxTicks
  /\ today' = today + 1
  /\ ticks' = ticks + 1
  /\ lastOp' = "tick"
  /\ UNCHANGED <<catalogVars, itemVars, quoteInfo, localStorage, exportVars, toast, tzWest, counter0>>

\* the derived values the screen shows (197-199)
RECURSIVE reduceSubtotals(_)
reduceSubtotals(items) ==
  IF items = <<>> THEN 0
  ELSE reduceSubtotals(SubSeq(items, 1, Len(items) - 1))
         + items[Len(items)].qty * items[Len(items)].unitPrice

monthlyTotal == reduceSubtotals(lineItems)

months == OrElse(parseInt(quoteInfo.numberOfMonths), 12)

oneTimeFunding == monthlyTotal * months

\* the "Monthly $" cell of a row on screen (455)
rowSubtotal(item) == item.qty * item.unitPrice

(***************************************************************************)
(* The exported document (generateQuotePDF.ts)                             *)
(***************************************************************************)
\* info.x || "—" for parsed text and for plain text
OrDashSeq(s) == IF s = <<>> THEN <<"--">> ELSE s

OrDash(s) == IF s = "" THEN "--" ELSE s

\* the rows of the line-item table (63-71)
tableData(items) ==
  [i \in 1..Len(items) |->
     << items[i].resource, items[i].type, items[i].itemName, toString(items[i].qty),
        Dollar(items[i].unitPrice), Dollar(items[i].qty * items[i].unitPrice),
        items[i].notes >>]

\* the summary values (100-102)
RECURSIVE pdfMonthlyTotal(_)
pdfMonthlyTotal(items) ==
  IF items = <<>> THEN 0
  ELSE pdfMonthlyTotal(SubSeq(items, 1, Len(items) - 1))
         + items[Len(items)].qty * items[Len(items)].unitPrice

\* pdfMonths without the default of 12
pdfMonthsNoDefault(info) == parseInt(info.numberOfMonths).v

pdfMonths(info) == OrElse(parseInt(info.numberOfMonths), 12)

pdfOneTimeFunding(items, info) == pdfMonthlyTotal(items) * pdfMonths(info)

\* everything generateQuotePDF draws and saves, given whether the logo was
\* drawn and the date of the run
generateQuotePDF(items, info, logo, now) ==
  [ logo     |-> logo,
    title    |-> "MSHS Quotation",
    infoRows |-> [ quotationNumber |-> OrDashSeq(info.quotationNumber),
                   application     |-> OrDash(info.application),
                   quoteFrom       |-> OrDash(info.quoteFrom),
                   issuer          |-> OrDash(info.issuer),
                   attention       |-> OrDash(info.attention),
                   createdOn       |-> OrDashSeq(info.date),
                   validUntil      |-> OrDashSeq(info.validUntil) ],
    body     |-> tableData(items),
    summary  |-> [ projectFund    |-> OrDash(info.projectFund),
                   monthlyTotal   |-> Dollar(pdfMonthlyTotal(items)),
                   numberOfMonths |-> toString(pdfMonths(info)),
                   oneTimeFunding |-> Dollar(pdfOneTimeFunding(items, info)) ],
    footer   |-> [ note |-> "This quotation is valid for 60 days from the created date.",
                   generated |-> now ],
    fileName |-> [ application |-> IF info.application = "" THEN "Azure" ELSE info.application,
                   date |-> now ] ]

\* loadImage without img.onerror = reject
loadImageNoOnError(event) == IF event = "load" THEN "fulfilled" ELSE "pending"

\* loadImage (6-13): how the promise settles on an event of the image
loadImage(event) == IF event = "load" THEN "fulfilled" ELSE "rejected"

\* the logo step without its try/catch
tryLogoNoCatch(settled, addImageOk) ==
  IF settled = "fulfilled" /\ addImageOk THEN "drawn" ELSE "throws"

\* the try block around the logo (22-25): "drawn", "skipped" (the catch
\* swallowed a rejection or a throw of addImage) or "throws"
tryLogo(settled, addImageOk) ==
  IF settled = "fulfilled" /\ addImageOk THEN "drawn" ELSE "skipped"

(***************************************************************************)
(* Export (QuoteBuilder.tsx 201-212)                                       *)
(***************************************************************************)
\* handleGeneratePDF without its guard
exportNeverRejected(items) == FALSE

\* the guard of handleGeneratePDF (202)
exportRejected(items) == Len(items) = 0

\* handleGeneratePDF up to the await of loadImage inside generateQuotePDF;
\* the suspended call holds items and info, the arguments of line 208; shown
\* (the number on the page at the click) and nth (how many exports were
\* started up to this one) are kept as history
handleGeneratePDF ==
  /\ UNCHANGED edits
  /\ lastOp' = "handleGeneratePDF"
  /\ IF exportRejected(lineItems)
     THEN /\ toast' = "Add at least one item to generate a quote."
          /\ UNCHANGED <<localStorage, exports>>
     ELSE /\ Len(exports) + Len(docs) < MaxExports
          /\ localStorage' = incrementedStorage(localStorage)
          /\ exports' = Append(exports,
                [ items |-> lineItems,
                  info  |-> [quoteInfo EXCEPT !.quotationNumber = incrementedNumber(localStorage)],
                  image |-> "loading",
                  shown |-> quoteInfo.quotationNumber,
                  nth   |-> Len(exports) + Len(docs) + 1 ])
          /\ UNCHANGED toast
  /\ UNCHANGED <<catalogVars, itemVars, quoteInfo, docs, clockVars>>

\* a resumed generateQuotePDF reading the page's state instead of its arguments
resumedArgumentsFromState(e, itemsNow, infoNow) ==
  [ items |-> itemsNow,
    info  |-> [infoNow EXCEPT !.quotationNumber = e.info.quotationNumber] ]

\* what generateQuotePDF works on after its await: its own parameters items
\* and info (generateQuotePDF.ts 15, 46-52, 63-71), whatever the page holds now
resumedArguments(e, itemsNow, infoNow) == [ items |-> e.items, info |-> e.info ]

RemoveAt(seq, k) == SubSeq(seq, 1, k - 1) \o SubSeq(seq, k + 1, Len(seq))

\* An event of the image of the k-th suspended export, and everything that
\* runs after it: the rest of generateQuotePDF and of handleGeneratePDF
ImageEvent(k, event, addImageOk) ==
  /\ k \in 1..Len(exports)
  /\ exports[k].image = "loading"
  /\ LET e       == exports[k]
         args    == resumedArguments(e, lineItems, quoteInfo)
         settled == loadImage(event)
         logo    == tryLogo(settled, addImageOk)
     IN  IF settled = "pending"
         THEN \* no handler for the event: the promise never settles
              /\ exports' = [exports EXCEPT ![k].image = event]
              /\ UNCHANGED <<docs, quoteInfo, toast>>
         ELSE IF logo = "throws"
         THEN \* generateQuotePDF rejects, handleGeneratePDF stops at the await
              /\ exports' = RemoveAt(exports, k)
              /\ UNCHANGED <<docs, quoteInfo, toast>>
         ELSE /\ exports' = RemoveAt(exports, k)
              /\ docs' = Append(docs,
                    [ file  |-> generateQuotePDF(args.items, args.info, logo = "drawn", today),
                      items |-> e.items,
                      info  |-> e.info,
                      shown |-> e.shown,
                      nth   |-> e.nth ])
              /\ quoteInfo' = [quoteInfo EXCEPT
                                 !.quotationNumber = peekQuotationNumber(localStorage)]
              /\ toast' = "PDF generated successfully!"
  /\ UNCHANGED <<catalogVars, itemVars, localStorage, clockVars, edits>>

\* img.onload
ImgOnLoad(k) ==
  /\ \E ok \in BOOLEAN : ImageEvent(k, "load", ok)
  /\ lastOp' = "imgOnLoad"

\* img.onerror
ImgOnError(k) ==
  /\ ImageEvent(k, "error", TRUE)
  /\ lastOp' = "imgOnError"

(***************************************************************************)
(* Initial state: the page has just been mounted                           *)
(***************************************************************************)
StartDay == MakeDay(2023, 11, 31)

\* what earlier sessions may have left under the two keys
InitCounters == { None, Some(<<"9">>) }

InitCatalogs == { None, Some(stringify(<<[item |-> <<"N">>, unitPrice |-> 250, category |-> <<"K">>]>>)) }

InitWith(counter, blob, west) ==
  LET ls0 == [quotationCounter |-> counter, priceCatalog |-> blob]
      now == formatDate([valid |-> TRUE, t |-> StartDay])
  IN  /\ catalog = loadCatalog(ls0)
      /\ catalogIsDefaultRef = (blob = None)
      /\ localStorage = saveCatalog(ls0, loadCatalog(ls0))
      /\ newItem = EmptyNewItem
      /\ editingItem = None
      /\ lineItems = <<>>
      /\ nextId = 0
      /\ quoteInfo = [ quotationNumber |-> peekQuotationNumber(ls0),
                       application     |-> "",
                       quoteFrom       |-> "",
                       issuer          |-> "Cloud Architect & Engineering",
                       date            |-> now,
                       validUntil      |-> getValidUntil(now, StartDay, west),
                       attention       |-> "",
                       projectFund     |-> "",
                       numberOfMonths  |-> <<"1", "2">> ]
      /\ exports = <<>>
      /\ docs = <<>>
      /\ toast = ""
      /\ lastOp = "mount"
      /\ today = StartDay
      /\ ticks = 0
      /\ tzWest = west
      /\ edits = 0
      /\ counter0 = StoredCounter(ls0).v

Init == \E c \in InitCounters, b \in InitCatalogs, w \in BOOLEAN : InitWith(c, b, w)

\* the initial states told apart by the part of the program a specification
\* exercises; the rest of the storage is empty and the zone is not behind UTC
InitQuote == \E c \in InitCounters : InitWith(c, None, FALSE)

InitItems == \E b \in InitCatalogs : InitWith(None, b, FALSE)

InitInfo == \E w \in BOOLEAN : InitWith(None, None, w)

InitCatalog == \E b \in InitCatalogs : InitWith(None, b, FALSE)

(***************************************************************************)
(* Specifications                                                          *)
(***************************************************************************)
\* quote assembly and export, with at most MaxQuoteEdits edits of the quote
Next ==
  \/ \E c \in 1..MaxCatalog : edits < MaxQuoteEdits /\ addItem(c)
  \/ \E id \in 1..MaxAdds, t \in QtyInputs : edits < MaxQuoteEdits /\ QtyOnChange(id, t)
  \/ \E id \in 1..MaxAdds : edits < MaxQuoteEdits /\ removeLineItem(id)
  \/ \E t \in MonthInputs : edits < MaxQuoteEdits /\ SetNumberOfMonths(t)
  \/ handleGeneratePDF
  \/ \E k \in 1..MaxExports : ImgOnLoad(k)
  \/ \E k \in 1..MaxExports : ImgOnError(k)

Spec == InitQuote /\ [][Next]_vars

\* the browser eventually fires load or error on every image it is loading
ImageSettles == \E k \in 1..MaxExports : ImgOnLoad(k) \/ ImgOnError(k)

\* the export alone: items are picked and exported, images load or fail
NextExport ==
  \/ \E c \in 1..MaxCatalog : edits < MaxQuoteEdits /\ addItem(c)
  \/ handleGeneratePDF
  \/ \E k \in 1..MaxExports : ImgOnLoad(k)
  \/ \E k \in 1..MaxExports : ImgOnError(k)

FairSpec == InitQuote /\ [][NextExport]_vars /\ WF_vars(ImageSettles)

\* line-item editing
NextItems ==
  \/ \E c \in 1..MaxCatalog : addItem(c)
  \/ \E id \in 1..MaxAdds, t \in QtyInputs : QtyOnChange(id, t)
  \/ \E id \in 1..MaxAdds, f \in {"resource", "type", "notes"}, t \in LineTexts :
       TextOnChange(id, f, t)
  \/ \E id \in 1..MaxAdds : removeLineItem(id)
  \/ \E id \in 1..MaxAdds, u \in UnknownIdUpdates : updateLineItemUnknownId(id, u[1], u[2])
  \/ \E id \in 1..MaxAdds : removeLineItemUnknownId(id)

SpecItems == InitItems /\ [][NextItems]_vars

\* metadata editing
NextInfo ==
  \/ \E f \in {"application", "quoteFrom", "issuer", "attention", "projectFund"},
        t \in InfoTexts : SetInfoText(f, t)
  \/ \E t \in MonthInputs : SetNumberOfMonths(t)
  \/ \E t \in DateInputs : updateDate(t)
  \/ Tick

SpecInfo == InitInfo /\ [][NextInfo]_vars

\* catalog management
NextCatalog ==
  \/ \E t \in NameInputs : SetNewItemName(t)
  \/ \E t \in CategoryInputs : SetNewItemCategory(t)
  \/ \E t \in PriceInputs : SetNewItemPrice(t)
  \/ addCatalogItem
  \/ \E i \in 1..MaxCatalog : StartEdit(i)
  \/ \E t \in CategoryInputs : SetEditCategory(t)
  \/ \E t \in PriceInputs : SetEditPrice(t)
  \/ CancelEdit
  \/ updateCatalogItem
  \/ \E i \in 1..Len(catalog) : deleteCatalogItem(catalog[i].item)
  \/ resetCatalog

SpecCatalog == InitCatalog /\ [][NextCatalog]_vars

(***************************************************************************)
(* Properties                                                              *)
(***************************************************************************)
RECURSIVE SumOfSubtotals(_)
SumOfSubtotals(items) ==
  IF items = <<>> THEN 0
  ELSE Head(items).qty * Head(items).unitPrice + SumOfSubtotals(Tail(items))

\* the month count as the specification words it: the number in the field,
\* 12 when the field is not numeric
MonthCountAsSpecified(field) == IF parseInt(field).nan THEN 12 ELSE parseInt(field).v

\* the month count with the number 0 also replaced by 12
MonthCountOrTwelve(field) ==
  IF parseInt(field).nan \/ parseInt(field).v = 0 THEN 12 ELSE parseInt(field).v

\* the screen's and every document's figures are the sums and products of
\* their inputs, for a given reading mc of the month-count field
TotalsRight(mc(_)) ==
  /\ \A i \in 1..Len(lineItems) :
       rowSubtotal(lineItems[i]) = lineItems[i].qty * lineItems[i].unitPrice
  /\ monthlyTotal = SumOfSubtotals(lineItems)
  /\ months = mc(quoteInfo.numberOfMonths)
  /\ oneTimeFunding = SumOfSubtotals(lineItems) * mc(quoteInfo.numberOfMonths)
  /\ \A n \in 1..Len(docs) :
       LET d == docs[n]
       IN  /\ Len(d.file.body) = Len(d.items)
           /\ \A i \in 1..Len(d.items) :
                d.file.body[i][6] = Dollar(d.items[i].qty * d.items[i].unitPrice)
           /\ d.file.summary.monthlyTotal = Dollar(SumOfSubtotals(d.items))
           /\ d.file.summary.numberOfMonths = toString(mc(d.info.numberOfMonths))
           /\ d.file.summary.oneTimeFunding =
                Dollar(SumOfSubtotals(d.items) * mc(d.info.numberOfMonths))
           /\ (d.items = lineItems /\ d.info.numberOfMonths = quoteInfo.numberOfMonths)
                => /\ d.file.summary.monthlyTotal = Dollar(monthlyTotal)
                   /\ d.file.summary.numberOfMonths = toString(months)
                   /\ d.file.summary.oneTimeFunding = Dollar(oneTimeFunding)

\* C1 as stated: on screen and in every exported document each row subtotal
\* is qty x unitPrice, the monthly total is the sum of the subtotals, and the
\* projected total is the monthly total times the month count, the month
\* count being the field's number, or 12 when the field is not numeric.
C1_TotalsAsSpecified == TotalsRight(MonthCountAsSpecified)

\* C1 amended: the same, the month count being the integer parseInt reads from
\* the field, or 12 when the field is not numeric or that integer is 0.
C1_Totals == TotalsRight(MonthCountOrTwelve)

\* one item of quantity 2 at 10.00 exported with month count 12: row subtotal
\* $20.00, projected total $240.00
C1_Witness ==
  \E n \in 1..Len(docs) :
    /\ Len(docs[n].items) = 1
    /\ docs[n].items[1].qty = 2
    /\ docs[n].items[1].unitPrice = 1000
    /\ docs[n].info.numberOfMonths = <<"1", "2">>
    /\ docs[n].file.body[1][6] = <<"$", "2", "0", ".", "0", "0">>
    /\ docs[n].file.summary.oneTimeFunding = <<"$", "2", "4", "0", ".", "0", "0">>

\* C2 as stated: the stored counter is its initial value plus the number of
\* exports that produced a document (so a rejected or failed export leaves
\* it unchanged), and it never decreases.
C2_CounterCountsDocuments ==
  StoredCounter(localStorage).v = counter0 + Len(docs)

\* C3: before any export the displayed quotation number is the stored counter
\* plus one (00001 when nothing is stored); right after an export has
\* produced its document the displayed number is again the stored counter plus
\* one, and with no export in flight the stored counter has grown by exactly
\* one per exported document.
C3_DisplayedIsNext ==
  /\ (exports = <<>> /\ docs = <<>>)
       => /\ parseInt(quoteInfo.quotationNumber) = Num(StoredCounter(localStorage).v + 1)
          /\ Len(quoteInfo.quotationNumber) >= 5
          /\ localStorage.quotationCounter = None
               => quoteInfo.quotationNumber = <<"0", "0", "0", "0", "1">>
  /\ (lastOp \in {"imgOnLoad", "imgOnError"} /\ docs # <<>>)
       => parseInt(quoteInfo.quotationNumber) = Num(StoredCounter(localStorage).v + 1)
  /\ exports = <<>> => StoredCounter(localStorage).v = counter0 + Len(docs)

\* an export from a stored counter of 9 has completed: 10 is stored and 00011
\* is displayed
C3_Witness ==
  /\ lastOp \in {"imgOnLoad", "imgOnError"}
  /\ exports = <<>>
  /\ Len(docs) = 1
  /\ counter0 = 9
  /\ localStorage.quotationCounter = Some(<<"1", "0">>)
  /\ quoteInfo.quotationNumber = <<"0", "0", "0", "1", "1">>

\* C4: an export asked for while there is no line item produces no document,
\* starts none, and leaves the stored counter, the metadata (displayed number
\* included) and the line items as they were.
C4_EmptyExportRejected ==
  [][(lastOp' = "handleGeneratePDF" /\ lineItems = <<>>)
       => /\ docs' = docs
          /\ exports' = exports
          /\ localStorage' = localStorage
          /\ quoteInfo' = quoteInfo
          /\ lineItems' = lineItems]_vars

C4_Witness ==
  /\ lastOp = "handleGeneratePDF"
  /\ lineItems = <<>>
  /\ toast = "Add at least one item to generate a quote."
  /\ docs = <<>>

\* text without its leading and trailing spaces, read off the positions of
\* the characters that are not spaces
Stripped(s) ==
  LET ink == { i \in 1..Len(s) : s[i] # " " }
  IN  IF ink = {} THEN <<>>
      ELSE SubSeq(s, CHOOSE i \in ink : \A j \in ink : i <= j,
                     CHOOSE i \in ink : \A j \in ink : i >= j)

IsBlank(s) == \A i \in 1..Len(s) : s[i] = " "

\* C5: addCatalogItem leaves the catalog (and its stored copy) unchanged when
\* the new name or category is empty or blank or the trimmed name is the name
\* of a catalog item; otherwise it appends one item, with the trimmed name
\* and category and the price of the form, after the unchanged existing items.
C5_AddCatalogItem ==
  [][lastOp' = "addCatalogItem"
       => IF \/ IsBlank(newItem.item)
             \/ IsBlank(newItem.category)
             \/ \E i \in 1..Len(catalog) : catalog[i].item = Stripped(newItem.item)
          THEN catalog' = catalog /\ localStorage' = localStorage
          ELSE /\ Len(catalog') = Len(catalog) + 1
               /\ SubSeq(catalog', 1, Len(catalog)) = catalog
               /\ catalog'[Len(catalog')] = [item      |-> Stripped(newItem.item),
                                             unitPrice |-> newItem.unitPrice,
                                             category  |-> Stripped(newItem.category)]]_vars

\* a name that equals an existing one only after trimming was rejected
C5_Witness ==
  /\ lastOp = "addCatalogItem"
  /\ toast = "An item with this name already exists."
  /\ newItem.item = <<" ", "V", "M", " ">>
  /\ \E i \in 1..Len(catalog) : catalog[i].item = <<"V", "M">>

(***************************************************************************)
(* Dates                                                                   *)
(***************************************************************************)
\* n days after a date: the day of the month carried over month and year ends
RECURSIVE RollOver(_, _, _)
RollOver(y, m, d) ==
  IF d <= DaysInMonth(y, m) THEN [y |-> y, m |-> m, d |-> d]
  ELSE IF m < 12 THEN RollOver(y, m + 1, d - DaysInMonth(y, m))
  ELSE RollOver(y + 1, 1, d - DaysInMonth(y, m))

DaysLater(c, n) == RollOver(c.y, c.m, c.d + n)

\* a calendar date written M/D/YYYY without zero padding
MDY(c) == toString(c.m) \o <<"/">> \o toString(c.d) \o <<"/">> \o toString(c.y)

\* a numeral without sign or leading zero
IsPlainNumeral(s) ==
  /\ s # <<>>
  /\ \A i \in 1..Len(s) : IsDigit(s[i])
  /\ s[1] # "0"

\* the date a text denotes when it is a valid date written M/D/YYYY
\* (ok = FALSE when it is not)
ReadMDY(s) ==
  LET slashes == { i \in 1..Len(s) : s[i] = "/" }
  IN  IF Cardinality(slashes) # 2 THEN [ok |-> FALSE]
      ELSE LET i  == CHOOSE x \in slashes : \A z \in slashes : x <= z
               j  == CHOOSE x \in slashes : \A z \in slashes : x >= z
               ms == SubSeq(s, 1, i - 1)
               ds == SubSeq(s, i + 1, j - 1)
               ys == SubSeq(s, j + 1, Len(s))
           IN  IF /\ IsPlainNumeral(ms) /\ IsPlainNumeral(ds) /\ IsPlainNumeral(ys)
                  /\ Len(ys) = 4
                  /\ DigitsValue(ms) \in 1..12
                  /\ DigitsValue(ds) <= DaysInMonth(DigitsValue(ys), DigitsValue(ms))
               THEN [ok |-> TRUE, y |-> DigitsValue(ys), m |-> DigitsValue(ms),
                     d |-> DigitsValue(ds)]
               ELSE [ok |-> FALSE]

\* today as a calendar date
Today == LET f == YearMonthDate(today) IN [y |-> f.year, m |-> f.month + 1, d |-> f.date]

\* the date the code takes a text for, by either of its two parses
CodeReads(s) ==
  LET parts == split(s, "/")
      d1    == IF Len(parts) = 3
               THEN NewDateYMD(parseInt(parts[3]), Minus1(parseInt(parts[1])), parseInt(parts[2]))
               ELSE InvalidDate
  IN  IF d1.valid THEN d1 ELSE DateParse(s, tzWest)

\* C6 as stated: in every reachable state the valid-until date is the
\* creation date held in the metadata plus 60 days, whatever text was typed.
C6_ValidUntilAlwaysDatePlus60 ==
  /\ CodeReads(quoteInfo.date).valid
  /\ LET f == YearMonthDate(CodeReads(quoteInfo.date).t)
     IN  quoteInfo.validUntil = MDY(DaysLater([y |-> f.year, m |-> f.month + 1, d |-> f.date], 60))

\* C6 amended: whenever the creation-date field holds a valid date written
\* M/D/YYYY, the valid-until date is that date plus 60 days; an edit to text
\* that does not parse as a date sets the valid-until date to the day of the
\* edit plus 60 days.
C6_ValidUntil ==
  /\ [](ReadMDY(quoteInfo.date).ok
          => quoteInfo.validUntil = MDY(DaysLater(ReadMDY(quoteInfo.date), 60)))
  /\ [][(lastOp' = "updateDate" /\ ~CodeReads(quoteInfo'.date).valid)
          => quoteInfo'.validUntil = MDY(DaysLater(Today, 60))]_vars

\* the day after the page was opened, text that is no date was typed
C6_Witness ==
  /\ lastOp = "updateDate"
  /\ ticks = 1
  /\ quoteInfo.date = <<"a", "b", "c">>
  /\ quoteInfo.validUntil = <<"3", "/", "1", "/", "2", "0", "2", "4">>

\* the first edit of a session sets the creation date to any valid date of
\* the years 1900, 2000 and 2023 to YearHi
updateDateValid ==
  \E y \in {1900, 2000} \cup (2023..YearHi), m \in 1..12, d \in 1..31 :
    /\ d <= DaysInMonth(y, m)
    /\ edits = 0
    /\ updateDate(MDY([y |-> y, m |-> m, d |-> d]))

NextDate == updateDateValid

SpecDate == InitInfo /\ [][NextDate]_vars

NoZeroPadding(s) ==
  LET parts == split(s, "/")
  IN  Len(parts) = 3 /\ \A i \in 1..3 : IsPlainNumeral(parts[i])

\* C7: for a valid creation date written M/D/YYYY the valid-until date is the
\* calendar date 60 days later (month ends, year ends and leap years
\* included), written M/D/YYYY without zero padding; 3/1/2024 gives 4/30/2024.
C7_SixtyDaysLater ==
  /\ ReadMDY(quoteInfo.date).ok
  /\ quoteInfo.validUntil = MDY(DaysLater(ReadMDY(quoteInfo.date), 60))
  /\ NoZeroPadding(quoteInfo.validUntil)
  /\ quoteInfo.date = <<"3", "/", "1", "/", "2", "0", "2", "4">>
       => quoteInfo.validUntil = <<"4", "/", "3", "0", "/", "2", "0", "2", "4">>
  /\ quoteInfo.date = <<"1", "/", "1", "/", "1", "9", "0", "0">>
       => quoteInfo.validUntil = <<"3", "/", "2", "/", "1", "9", "0", "0">>

C7_Witness ==
  /\ lastOp = "updateDate"
  /\ quoteInfo.date = <<"3", "/", "1", "/", "2", "0", "2", "4">>
  /\ quoteInfo.validUntil = <<"4", "/", "3", "0", "/", "2", "0", "2", "4">>

(***************************************************************************)
(* Quantities and the export                                               *)
(***************************************************************************)
\* C8 as stated: every line item's quantity is an integer >= 1, after any
\* edit of the quantity field.
C8_QtyPositive == \A i \in 1..Len(lineItems) : lineItems[i].qty >= 1

\* the document generateQuotePDF draws when the logo is drawn, without its
\* logo
WithoutLogo(items, info, now) ==
  [generateQuotePDF(items, info, TRUE, now) EXCEPT !.logo = FALSE]

\* C9: when the image of a suspended export fails to load, the export still
\* completes: it saves the document it would have saved with the image,
\* only without the logo, leaves the stored counter as it is, displays the
\* next quotation number and reports success.
C9_ImageFailureIgnored ==
  [][lastOp' = "imgOnError"
       => \E k \in 1..Len(exports) :
            /\ exports' = RemoveAt(exports, k)
            /\ Len(docs') = Len(docs) + 1
            /\ SubSeq(docs', 1, Len(docs)) = docs
            /\ docs'[Len(docs')].file = WithoutLogo(exports[k].items, exports[k].info, today)
            /\ localStorage' = localStorage
            /\ quoteInfo' = [quoteInfo EXCEPT !.quotationNumber =
                               padStart(toString(StoredCounter(localStorage).v + 1), 5, "0")]
            /\ toast' = "PDF generated successfully!"]_vars

C9_Witness ==
  /\ lastOp = "imgOnError"
  /\ docs # <<>>
  /\ docs[Len(docs)].file.logo = FALSE
  /\ Len(docs[Len(docs)].file.body) >= 1
  /\ toast = "PDF generated successfully!"

\* C10: every export started with at least one line item eventually saves its
\* document and the displayed quotation number is refreshed, whether its
\* image loads or fails: whenever exports are suspended, a state follows in
\* which none is, every export started has saved a document and the
\* displayed number is the stored counter plus one.
C10_ExportCompletes ==
  (exports # <<>>)
    ~> /\ exports = <<>>
       /\ Len(docs) = StoredCounter(localStorage).v - counter0
       /\ parseInt(quoteInfo.quotationNumber) = Num(StoredCounter(localStorage).v + 1)

\* an export whose image failed has saved its document
C10_Witness ==
  /\ lastOp = "imgOnError"
  /\ exports = <<>>
  /\ Len(docs) = MaxExports
  /\ parseInt(quoteInfo.quotationNumber) = Num(StoredCounter(localStorage).v + 1)

(***************************************************************************)
(* C11: the catalog in storage is the catalog in memory                    *)
(***************************************************************************)
\* C11: after every catalog operation and its save effect, the catalog a
\* start of the application would load (the stored blob, the built-in set
\* when none is stored) is the catalog in memory; this covers the empty
\* catalog and a reset of a catalog that already is the built-in set.
C11_CatalogPersisted == loadCatalog(localStorage) = catalog

\* a reset of the built-in set: the key is removed and nothing saves again
C11_Witness ==
  /\ lastOp = "resetCatalog"
  /\ localStorage.priceCatalog = None
  /\ catalog = defaultPriceSheet

\* the last item was deleted: an empty array is stored and loads as empty
C11_EmptyStored ==
  /\ lastOp = "deleteCatalogItem"
  /\ catalog = <<>>
  /\ localStorage.priceCatalog = Some(<<>>)

(***************************************************************************)
(* C12: catalog names stay unique; edit and delete act on one name         *)
(***************************************************************************)
NamesDistinct(cat) ==
  \A i, j \in 1..Len(cat) : cat[i].item = cat[j].item => i = j

\* cat without its i-th item
CatalogWithout(cat, i) == SubSeq(cat, 1, i - 1) \o SubSeq(cat, i + 1, Len(cat))

\* an updateCatalogItem step changes the category and the unit price of the
\* item named as the edited one, and nothing else of the catalog
EditTouchesOneName ==
  updateCatalogItem =>
    /\ Len(catalog') = Len(catalog)
    /\ \A i \in 1..Len(catalog) :
         IF catalog[i].item = editingItem[1].item
         THEN catalog'[i] = [catalog[i] EXCEPT !.category = editingItem[1].category,
                                              !.unitPrice = editingItem[1].unitPrice]
         ELSE catalog'[i] = catalog[i]

\* a deleteCatalogItem step for the name of row i leaves the catalog without row i
DeleteRemovesOneName ==
  \A i \in 1..Len(catalog) :
    deleteCatalogItem(catalog[i].item) => catalog' = CatalogWithout(catalog, i)

\* C12: from a catalog of pairwise distinct names, add, edit, delete and
\* reset keep the names pairwise distinct; an edit changes only the
\* category and unit price of the item with the edited name, and a delete
\* removes exactly the item with the given name.
C12_UniqueNames ==
  /\ [](NamesDistinct(catalog))
  /\ [][EditTouchesOneName]_vars
  /\ [][DeleteRemovesOneName]_vars

\* one of several items was deleted and the others remain
C12_Witness ==
  /\ lastOp = "deleteCatalogItem"
  /\ catalog = <<defaultPriceSheet[2]>>

\* an edit changed the price of one of two items
C12_EditWitness ==
  /\ lastOp = "updateCatalogItem"
  /\ Len(catalog) = 2
  /\ catalog # defaultPriceSheet
  /\ catalog[2] = defaultPriceSheet[2]

\* a second item of a name already listed was refused
C12_DuplicateRefused ==
  /\ lastOp = "addCatalogItem"
  /\ toast = "An item with this name already exists."

(***************************************************************************)
(* C13: a line-item operation touches its target only                      *)
(***************************************************************************)
LineItemFields == {"id", "resource", "type", "itemName", "qty", "unitPrice", "notes"}

\* items without its i-th row
RowsWithout(items, i) == SubSeq(items, 1, i - 1) \o SubSeq(items, i + 1, Len(items))

\* after is before with field set to value on the rows of that id, every
\* other field and every other row as it was, in the same order
OnlyFieldOfIdChanged(before, after, id, field, value) ==
  /\ Len(after) = Len(before)
  /\ \A i \in 1..Len(before) :
       IF before[i].id = id
       THEN /\ after[i][field] = value
            /\ \A g \in LineItemFields \ {field} : after[i][g] = before[i][g]
       ELSE after[i] = before[i]

\* addItem appends one row copied from catalog entry c and keeps the others
AddAppendsOne ==
  \A c \in 1..Len(catalog) :
    addItem(c) =>
      /\ Len(lineItems') = Len(lineItems) + 1
      /\ SubSeq(lineItems', 1, Len(lineItems)) = lineItems
      /\ LET new == lineItems'[Len(lineItems')]
         IN  /\ new.type = catalog[c].category
             /\ new.itemName = catalog[c].item
             /\ new.unitPrice = catalog[c].unitPrice
             /\ new.qty = 1
             /\ new.resource = <<>>
             /\ new.notes = <<>>
             /\ new.id \notin RowIds

\* an edit of a row's input changes that field of that row only
UpdateChangesOneField ==
  /\ \A id \in 1..MaxAdds, t \in QtyInputs :
       QtyOnChange(id, t) =>
         OnlyFieldOfIdChanged(lineItems, lineItems', id, "qty", qtyOnChangeValue(t))
  /\ \A id \in 1..MaxAdds, f \in {"resource", "type", "notes"}, t \in LineTexts :
       TextOnChange(id, f, t) => OnlyFieldOfIdChanged(lineItems, lineItems', id, f, t)

\* removeLineItem removes the one row of that id and keeps the others in order
RemoveRemovesOne ==
  \A id \in 1..MaxAdds :
    removeLineItem(id) =>
      \E i \in 1..Len(lineItems) :
        /\ lineItems[i].id = id
        /\ lineItems' = RowsWithout(lineItems, i)

\* with an id no row has, neither function changes the list
UnknownIdChangesNothing ==
  \A id \in 1..MaxAdds :
    /\ removeLineItemUnknownId(id) => lineItems' = lineItems
    /\ \A u \in UnknownIdUpdates :
         updateLineItemUnknownId(id, u[1], u[2]) => lineItems' = lineItems

\* C13: addItem appends one item copied from the chosen catalog entry with
\* quantity 1 and empty resource and notes; updateLineItem changes only the
\* given field of the item of the given id; removeLineItem removes exactly
\* that item; the other items keep their values and order, the catalog and
\* the metadata are unchanged, and an unknown id changes nothing.
C13_LineItemFrame ==
  /\ [][AddAppendsOne]_vars
  /\ [][UpdateChangesOneField]_vars
  /\ [][RemoveRemovesOne]_vars
  /\ [][UnknownIdChangesNothing]_vars
  /\ [][catalog' = catalog /\ quoteInfo' = quoteInfo /\ localStorage' = localStorage]_vars

\* the quantity of the first of two rows was changed, the second kept its own
C13_Witness ==
  /\ lastOp = "qtyOnChange"
  /\ Len(lineItems) = 2
  /\ lineItems[1].qty = 2
  /\ lineItems[2].qty = 1

\* the first of two rows was removed, the second remains
C13_RemoveWitness ==
  /\ lastOp = "removeLineItem"
  /\ Len(lineItems) = 1
  /\ lineItems[1].id = 2

\* a call with an id no row has, on a list that has a row
C13_UnknownIdWitness ==
  /\ lastOp = "updateLineItem"
  /\ Len(lineItems) = 1

(***************************************************************************)
(* C14: the number printed against the number displayed at the click       *)
(***************************************************************************)
\* C14: the quotation number printed on every exported document is the
\* number the page displayed when that export was started, also for an
\* export started while an earlier one waits for the image.
C14_PrintedIsDisplayed ==
  \A k \in 1..Len(docs) : docs[k].file.infoRows.quotationNumber = docs[k].shown

(***************************************************************************)
(* C15: overlapping exports                                                *)
(***************************************************************************)
OtherInfoFields ==
  {"application", "quoteFrom", "issuer", "date", "validUntil", "attention",
   "projectFund", "numberOfMonths"}

\* the nth export started prints the initial counter plus n
OwnNumber(printed, nth) == parseInt(printed) = Num(counter0 + nth)

\* the document is the one generateQuotePDF makes of the line items and
\* metadata of the click, under the export's own number
ReflectsClick(d) == d.file = generateQuotePDF(d.items, d.info, d.file.logo, today)

ExportsKeepTheirOwn ==
  /\ \A k \in 1..Len(docs) : OwnNumber(docs[k].file.infoRows.quotationNumber, docs[k].nth)
  /\ \A k \in 1..Len(exports) : OwnNumber(exports[k].info.quotationNumber, exports[k].nth)
  /\ \A j, k \in 1..Len(docs) :
       j # k => docs[j].file.infoRows.quotationNumber # docs[k].file.infoRows.quotationNumber
  /\ StoredCounter(localStorage).v = counter0 + Len(exports) + Len(docs)
  /\ exports = <<>> =>
       parseInt(quoteInfo.quotationNumber) = Num(StoredCounter(localStorage).v + 1)

\* starting an export keeps the metadata on the page, and the arguments it
\* suspends with are the line items and metadata of that moment; completing
\* one changes the displayed number only, keeps the documents saved so far
\* and saves the document of the click
ExportStepsKeepEdits ==
  /\ (lastOp' = "handleGeneratePDF" /\ Len(exports') = Len(exports) + 1) =>
       /\ quoteInfo' = quoteInfo
       /\ exports'[Len(exports')].items = lineItems
       /\ \A f \in OtherInfoFields : exports'[Len(exports')].info[f] = quoteInfo[f]
  /\ lastOp' \in {"imgOnLoad", "imgOnError"} =>
       /\ \A f \in OtherInfoFields : quoteInfo'[f] = quoteInfo[f]
       /\ SubSeq(docs', 1, Len(docs)) = docs
       /\ Len(docs') = Len(docs) + 1 => ReflectsClick(docs'[Len(docs')])

\* C15: when exports overlap each one gets its own quotation number (the
\* printed numbers are pairwise distinct and grow in the order the exports
\* were started), the stored counter is its initial value plus the number of
\* exports started with at least one line item, each document shows the line
\* items and metadata of the moment its export was started, and once no
\* export is suspended the displayed number is the stored counter plus one
\* while the other metadata fields keep the edits made in the meantime.
C15_OverlappingExports ==
  /\ [](ExportsKeepTheirOwn)
  /\ [][ExportStepsKeepEdits]_vars

\* two exports overlapped and completed in the reverse order, the month
\* count was edited between the two clicks, and the edit is still on the page
C15_Witness ==
  /\ exports = <<>>
  /\ Len(docs) = 2
  /\ docs[1].nth = 2
  /\ docs[2].nth = 1
  /\ docs[1].file.summary.numberOfMonths # docs[2].file.summary.numberOfMonths
  /\ quoteInfo.numberOfMonths = docs[1].info.numberOfMonths

====
